---- MODULE Spec2Model ----
(***************************************************************************)
(* Model of the mazegen library (src/src/lib.rs): the Maze grid with its   *)
(* wall queries and mutations, the text rendering, and the randomized      *)
(* depth-first backtracker MazeGen::generate.                              *)
(*                                                                         *)
(* A coordinate is a pair <<column, row>>.  An Option is a sequence of     *)
(* length 0 (None) or 1 (Some).  A HashSet whose iteration order could     *)
(* matter is a record [hasher, elems]; a Vec is a sequence.                *)
(***************************************************************************)
EXTENDS Integers, Sequences, FiniteSets, TLC

VARIABLES
    maze,           \* MazeGen.maze: [size, cells]
    left_to_visit,  \* MazeGen.left_to_visit: [hasher, elems]
    path_stack,     \* MazeGen.path_stack
    coord,          \* generate(): the local `coord`
    pc,             \* position of the caller / of generate()
    panicked,       \* an unwrap() on None has aborted the program
    lastCall,       \* name of the last public call that returned
    draws,          \* generate(): outcome of each loop iteration's choose()
    visits,         \* generate(): number of left_to_visit.remove calls so far
    pops,           \* generate(): number of path_stack.pop calls so far
    cell_writes     \* number of writes through get_mut_cell so far

vars == <<maze, left_to_visit, path_stack, coord, pc, panicked, lastCall,
          draws, visits, pops, cell_writes>>

----------------------------------------------------------------------------
(* Bounds of the model *)

\* widths and heights: 0..MaxDim
MaxDim == 3

\* cells of a grid whose walls the caller edits between calls
\* (Maze's wall calls and writes on the cells of get_mut_cell)
MaxCells == 4

\* cells of a grid handed to gen_maze
MaxGenCells == 9

\* RandomState keys of a HashSet: 0..MaxHasher
MaxHasher == 1

\* writes the caller makes on single cells through get_mut_cell
MaxCellWrites == 1

Dims == 0..MaxDim

Sizes == {s \in [width : Dims, height : Dims] : s.width * s.height <= MaxCells}

GenSizes ==
    {s \in [width : Dims, height : Dims] : s.width * s.height <= MaxGenCells}

Hashers == 0..MaxHasher

----------------------------------------------------------------------------
(* TileDirection *)

NORTH == "NORTH"

EAST == "EAST"

SOUTH == "SOUTH"

WEST == "WEST"

TileDirection == {NORTH, EAST, SOUTH, WEST}

ALL_TILE_DIRECTIONS == <<NORTH, EAST, SOUTH, WEST>>

----------------------------------------------------------------------------
(* Cell *)

CellNew(c) == [coord |-> c, walls |-> {}]

\* variant: the flag is flipped instead of set
CellToggleWall(cell, dir) ==
    [cell EXCEPT !.walls = IF dir \in @ THEN @ \ {dir} ELSE @ \cup {dir}]

CellEnableWall(cell, dir) == [cell EXCEPT !.walls = @ \cup {dir}]

CellDisableWall(cell, dir) == [cell EXCEPT !.walls = @ \ {dir}]

CellIsWallEnabled(cell, dir) == dir \in cell.walls

----------------------------------------------------------------------------
(* Maze *)

\* the index pairs (i, j) of the loops `for i in 0..width { for j in 0..height`
Coords(size) == (0..(size.width - 1)) \X (0..(size.height - 1))

\* the cell pushed at (i, j) by Maze::new: `i == size.height - 1` decides both
\* the EAST and the SOUTH flag
NewCell(size, i, j) ==
    LET c0 == CellNew(<<i, j>>)
        c1 == IF i = 0 THEN CellEnableWall(c0, WEST) ELSE c0
        c2 == IF i = size.height - 1 THEN CellEnableWall(c1, EAST) ELSE c1
        c3 == IF j = 0 THEN CellEnableWall(c2, NORTH) ELSE c2
        c4 == IF i = size.height - 1 THEN CellEnableWall(c3, SOUTH) ELSE c3
    IN  c4

MazeNew(size) ==
    [size |-> size,
     cells |-> [c \in Coords(size) |-> NewCell(size, c[1], c[2])]]

GetCell(m, c) == IF c \in DOMAIN m.cells THEN <<m.cells[c]>> ELSE <<>>

\* Option<&mut Cell>: the coordinate of the cell the reference points to
GetMutCell(m, c) == IF c \in DOMAIN m.cells THEN <<c>> ELSE <<>>

IsValidCoord(m, c) == c[1] < m.size.width /\ c[2] < m.size.height

\* variant: WEST and NORTH are pushed without the tests `coord.0 > 0` and
\* `coord.1 > 0`
GetNeighborsUnguarded(m, c) ==
    SelectSeq(<< <<<<c[1] + 1, c[2]>>, EAST>>,
                 <<<<c[1], c[2] + 1>>, SOUTH>>,
                 <<<<c[1] - 1, c[2]>>, WEST>>,
                 <<<<c[1], c[2] - 1>>, NORTH>> >>,
              LAMBDA e : IsValidCoord(m, e[1]))

GetNeighborCoordsAndDirs(m, c) ==
    LET all_neighbors ==
            <<  <<<<c[1] + 1, c[2]>>, EAST>>,
                <<<<c[1], c[2] + 1>>, SOUTH>>  >>
            \o (IF c[1] > 0 THEN << <<<<c[1] - 1, c[2]>>, WEST>> >> ELSE <<>>)
            \o (IF c[2] > 0 THEN << <<<<c[1], c[2] - 1>>, NORTH>> >> ELSE <<>>)
    IN  SelectSeq(all_neighbors, LAMBDA e : IsValidCoord(m, e[1]))

\* variant: the shared wall is named by the caller's own direction
GetOppositeSame(direction) == direction

GetOpposite(direction) ==
    CASE direction = NORTH -> SOUTH
      [] direction = EAST -> WEST
      [] direction = SOUTH -> NORTH
      [] direction = WEST -> EAST

\* Option<(coordinate of the neighbour cell, the shared wall seen from it)>
GetMutNeighborCellAndSharedWall(m, c, direction) ==
    LET found == SelectSeq(GetNeighborCoordsAndDirs(m, c),
                           LAMBDA e : e[2] = direction)
    IN  IF found = <<>> THEN <<>>
        ELSE IF GetCell(m, found[1][1]) = <<>> THEN <<>>
        ELSE << <<found[1][1], GetOpposite(found[1][2])>> >>

\* variant: the EAST edge is tested against the height, as Maze::new does
IsEdgeWallByHeight(m, c, direction) ==
    CASE direction = NORTH -> c[2] = 0
      [] direction = EAST -> c[1] = m.size.height - 1
      [] direction = SOUTH -> c[2] = m.size.height - 1
      [] direction = WEST -> c[1] = 0

\* usize arithmetic is built with overflow checks (TRUE, the debug profile)
\* or wraps (FALSE, the release profile); nothing in the repository fixes one
OverflowChecks == BOOLEAN

\* the arm of is_edge_wall for `direction` subtracts 1 from 0
IsEdgeWallOverflows(m, c, direction) ==
    CASE direction = NORTH -> FALSE
      [] direction = EAST -> m.size.width = 0
      [] direction = SOUTH -> m.size.height = 0
      [] direction = WEST -> FALSE

\* is_edge_wall aborts with "attempt to subtract with overflow"
IsEdgeWallPanics(m, c, direction, checks) ==
    checks /\ IsEdgeWallOverflows(m, c, direction)

\* the value is_edge_wall returns when it returns; a wrapped `0 - 1` is
\* usize::MAX, written here as its residue -1
IsEdgeWall(m, c, direction) ==
    CASE direction = NORTH -> c[2] = 0
      [] direction = EAST -> c[1] = m.size.width - 1
      [] direction = SOUTH -> c[2] = m.size.height - 1
      [] direction = WEST -> c[1] = 0

\* variant: the cell's own flag is reported, without the edge test
IsWallEnabledCellOnly(m, c, direction) ==
    CellIsWallEnabled(m.cells[c], direction)

IsWallEnabled(m, c, direction) ==
    IF IsEdgeWall(m, c, direction) THEN TRUE
    ELSE CellIsWallEnabled(m.cells[c], direction)

\* is_wall_enabled aborts in is_edge_wall or on the unwrap() of get_cell
IsWallEnabledPanics(m, c, direction, checks) ==
    \/ IsEdgeWallPanics(m, c, direction, checks)
    \/ /\ ~IsEdgeWall(m, c, direction)
       /\ GetCell(m, c) = <<>>

\* enable_wall / disable_wall abort in is_edge_wall or on an unwrap() of None
WallOpPanics(m, c, direction, checks) ==
    \/ IsEdgeWallPanics(m, c, direction, checks)
    \/ /\ ~IsEdgeWall(m, c, direction)
       /\ \/ GetCell(m, c) = <<>>
          \/ GetMutNeighborCellAndSharedWall(m, c, direction) = <<>>

MazeEnableWall(m, c, direction) ==
    IF IsEdgeWall(m, c, direction) THEN m
    ELSE LET m1 == [m EXCEPT !.cells[c] = CellEnableWall(@, direction)]
             n == GetMutNeighborCellAndSharedWall(m1, c, direction)[1]
         IN  [m1 EXCEPT !.cells[n[1]] = CellEnableWall(@, n[2])]

\* variant: the neighbour's side of the wall is left as it was
MazeDisableWallOneSided(m, c, direction) ==
    IF IsEdgeWall(m, c, direction) THEN m
    ELSE [m EXCEPT !.cells[c] = CellDisableWall(@, direction)]

MazeDisableWall(m, c, direction) ==
    IF IsEdgeWall(m, c, direction) THEN m
    ELSE LET m1 == [m EXCEPT !.cells[c] = CellDisableWall(@, direction)]
             n == GetMutNeighborCellAndSharedWall(m1, c, direction)[1]
         IN  [m1 EXCEPT !.cells[n[1]] = CellDisableWall(@, n[2])]

\* enable_all_walls / disable_all_walls are folds over the (coord, dir) of
\* the loops `for i { for j { for dir`.  Iterations lo .. hi - 1 are run as
\* iterations lo .. mid - 1 followed by iterations mid .. hi - 1, which keeps
\* the nesting of the evaluation logarithmic in the number of iterations;
\* m1 names the maze after iteration mid - 1, so that it is evaluated once

\* the n-th (coord, dir) of the loops, n from 0
NthCoord(m, n) == <<n \div (4 * m.size.height), (n \div 4) % m.size.height>>

NthDir(n) == ALL_TILE_DIRECTIONS[(n % 4) + 1]

RECURSIVE EnableAllRange(_, _, _)
EnableAllRange(m, lo, hi) ==
    IF hi <= lo THEN m
    ELSE IF hi = lo + 1
    THEN IF ~IsEdgeWall(m, NthCoord(m, lo), NthDir(lo))
         THEN MazeEnableWall(m, NthCoord(m, lo), NthDir(lo))
         ELSE m
    ELSE CHOOSE r \in {EnableAllRange(m1, (lo + hi) \div 2, hi) :
                m1 \in {EnableAllRange(m, lo, (lo + hi) \div 2)}} : TRUE

\* the iterations n, n + 1, ... of the loops of enable_all_walls
EnableAllFrom(m, n) ==
    EnableAllRange(m, n, 4 * m.size.width * m.size.height)

\* variant: the loops are skipped
MazeEnableAllSkipped(m) == m

MazeEnableAllWalls(m) == EnableAllFrom(m, 0)

RECURSIVE DisableAllRange(_, _, _)
DisableAllRange(m, lo, hi) ==
    IF hi <= lo THEN m
    ELSE IF hi = lo + 1
    THEN IF ~IsEdgeWall(m, NthCoord(m, lo), NthDir(lo))
         THEN MazeDisableWall(m, NthCoord(m, lo), NthDir(lo))
         ELSE m
    ELSE CHOOSE r \in {DisableAllRange(m1, (lo + hi) \div 2, hi) :
                m1 \in {DisableAllRange(m, lo, (lo + hi) \div 2)}} : TRUE

\* the iterations n, n + 1, ... of the loops of disable_all_walls
DisableAllFrom(m, n) ==
    DisableAllRange(m, n, 4 * m.size.width * m.size.height)

\* variant: the loops of disable_all_walls call enable_wall
MazeDisableAllCallsEnable(m) == EnableAllFrom(m, 0)

MazeDisableAllWalls(m) == DisableAllFrom(m, 0)

AllWallsPanic(m, checks) ==
    \E c \in Coords(m.size), d \in TileDirection :
        WallOpPanics(m, c, d, checks)

----------------------------------------------------------------------------
(* impl fmt::Display for Maze: the dump is a sequence of lines, a line a    *)
(* sequence of characters                                                  *)

Repeat(ch, n) == [k \in 1..n |-> ch]

\* `self.size.width * 2 - 1` underflows on a grid of width 0
DisplayPanics(m) == m.size.width = 0

\* first_line of row j, built for columns i .. width - 2
RECURSIVE FirstLineFrom(_, _, _)
FirstLineFrom(m, j, i) ==
    IF i >= m.size.width - 1 THEN <<>>
    ELSE << " ",
            IF CellIsWallEnabled(GetCell(m, <<i, j>>)[1], EAST)
            THEN "#" ELSE " " >>
         \o FirstLineFrom(m, j, i + 1)

\* second_line of row j, built for columns i .. width - 2
RECURSIVE SecondLineFrom(_, _, _)
SecondLineFrom(m, j, i) ==
    IF i >= m.size.width - 1 THEN <<>>
    ELSE << IF CellIsWallEnabled(GetCell(m, <<i, j>>)[1], SOUTH)
            THEN "#" ELSE " ",
            "#" >>
         \o SecondLineFrom(m, j, i + 1)

\* the lines written for rows j .. height - 1
RECURSIVE RowsFrom(_, _)
RowsFrom(m, j) ==
    IF j >= m.size.height THEN <<>>
    ELSE << <<"|">> \o FirstLineFrom(m, j, 0) \o <<" ", "|">> >>
         \o (IF j < m.size.height - 1
             THEN << <<"|">> \o SecondLineFrom(m, j, 0) \o <<"#", "|">> >>
             ELSE <<>>)
         \o RowsFrom(m, j + 1)

Display(m) ==
    << <<" ">> \o Repeat("_", m.size.width * 2 - 1) >> \o RowsFrom(m, 0)

----------------------------------------------------------------------------
(* MazeGen *)

HashSetContains(hs, x) == x \in hs.elems

HashSetRemove(hs, x) == [hs EXCEPT !.elems = @ \ {x}]

HashSetIsEmpty(hs) == hs.elems = {}

\* left_to_visit as built by MazeGen::new, with the keys its HashSet drew
LeftToVisitNew(size, h) == [hasher |-> h, elems |-> Coords(size)]

\* iteration order of a HashSet: by a key that its hasher decides
HashKey(h, x) ==
    IF h % 2 = 0 THEN x[1] * (MaxDim + 1) + x[2]
    ELSE 0 - (x[1] * (MaxDim + 1) + x[2])

RECURSIVE IterFrom(_, _)
IterFrom(h, S) ==
    IF S = {} THEN <<>>
    ELSE LET x == CHOOSE y \in S :
                    \A z \in S : HashKey(h, y) <= HashKey(h, z)
         IN  <<x>> \o IterFrom(h, S \ {x})

HashSetIter(hs) == IterFrom(hs.hasher, hs.elems)

\* variant: the candidates are collected by iterating left_to_visit and
\* keeping the neighbours of c
GetValidByIteration(m, ltv, c) ==
    LET nb == GetNeighborCoordsAndDirs(m, c)
        kept == SelectSeq(HashSetIter(ltv),
                          LAMBDA x : \E a \in 1..Len(nb) : nb[a][1] = x)
    IN  [a \in 1..Len(kept) |->
            nb[CHOOSE b \in 1..Len(nb) : nb[b][1] = kept[a]]]

\* variant: the filter keeps the neighbours that are no longer in left_to_visit
GetValidVisited(m, ltv, c) ==
    SelectSeq(GetNeighborCoordsAndDirs(m, c),
              LAMBDA e : ~HashSetContains(ltv, e[1]))

GetValidNeighborCoordsAndDirs(m, ltv, c) ==
    SelectSeq(GetNeighborCoordsAndDirs(m, c),
              LAMBDA e : HashSetContains(ltv, e[1]))

\* IteratorRandom::choose with the drawn index k: Option<(coord, dir)>
Choose(cands, k) == IF cands = <<>> THEN <<>> ELSE <<cands[k]>>

\* the indices choose() can draw for a candidate list
DrawsFor(cands) == IF cands = <<>> THEN {0} ELSE 1..Len(cands)

\* the MazeGen and generate()'s local `coord` as one value
GenState(m, ltv, stack, c) ==
    [maze |-> m, left_to_visit |-> ltv, path_stack |-> stack, coord |-> c]

\* variant: the cell that is left, not the one entered, is marked visited
StepAdvanceMarksCurrent(g, choice) ==
    [maze |-> MazeDisableWall(g.maze, g.coord, choice[2]),
     path_stack |-> Append(g.path_stack, g.coord),
     coord |-> choice[1],
     left_to_visit |-> HashSetRemove(g.left_to_visit, g.coord)]

\* lines 300-307: the arm Some((next_coord, dir)), choice = <<next_coord, dir>>
StepAdvance(g, choice) ==
    [maze |-> MazeDisableWall(g.maze, g.coord, choice[2]),
     path_stack |-> Append(g.path_stack, g.coord),
     coord |-> choice[1],
     left_to_visit |-> HashSetRemove(g.left_to_visit, choice[1])]

\* variant: the popped coordinate is dropped, `coord` stays
StepBacktrackKeepsCoord(g) ==
    [g EXCEPT !.path_stack = SubSeq(g.path_stack, 1, Len(g.path_stack) - 1)]

\* line 299: the arm None, on a non-empty stack
StepBacktrack(g) ==
    [g EXCEPT !.coord = g.path_stack[Len(g.path_stack)],
              !.path_stack = SubSeq(g.path_stack, 1, Len(g.path_stack) - 1)]

\* the state generate() enters its loop in, on the MazeGen that
\* MazeGen::new(size) built with HashSet keys h (lines 287-293)
GenMazeLoopEntry(size, h) ==
    GenState(MazeEnableAllWalls(MazeNew(size)),
             HashSetRemove(LeftToVisitNew(size, h), <<0, 0>>),
             <<>>, <<0, 0>>)

\* one iteration of the loop body (lines 298-308) with drawn index k
LoopBody(g, k) ==
    LET choice == Choose(
            GetValidNeighborCoordsAndDirs(g.maze, g.left_to_visit, g.coord), k)
    IN  IF choice = <<>> THEN StepBacktrack(g) ELSE StepAdvance(g, choice[1])

\* the loop run from g with the drawn indices ds, one per iteration: the
\* iterations of the first half of ds, then those of the second half; g1
\* names the state between the two, so that it is evaluated once
RECURSIVE RunLoop(_, _)
RunLoop(g, ds) ==
    IF ds = <<>> THEN g
    ELSE IF Len(ds) = 1 THEN LoopBody(g, ds[1])
    ELSE CHOOSE r \in {RunLoop(g1, SubSeq(ds, Len(ds) \div 2 + 1, Len(ds))) :
                g1 \in {RunLoop(g, SubSeq(ds, 1, Len(ds) \div 2))}} : TRUE

\* variant: the loop runs only while both conditions hold
LoopGuardBoth(stack, ltv) == Len(stack) > 0 /\ ~HashSetIsEmpty(ltv)

\* the loop condition of generate()
LoopGuard(stack, ltv) == Len(stack) > 0 \/ ~HashSetIsEmpty(ltv)

----------------------------------------------------------------------------
(* Initial state: right after MazeGen::new(size) *)

InitFor(sizes, hashers) ==
    /\ \E size \in sizes, h \in hashers :
          /\ maze = MazeNew(size)
          /\ left_to_visit = LeftToVisitNew(size, h)
    /\ path_stack = <<>>
    /\ coord = <<0, 0>>
    /\ pc = "idle"
    /\ panicked = FALSE
    /\ lastCall = "new"
    /\ draws = <<>>
    /\ visits = 0
    /\ pops = 0
    /\ cell_writes = 0

\* no call but get_valid_neighbor_coords_and_dirs reads left_to_visit, and it
\* reads it by contains(): the calls of this specification are run with one
\* draw of the HashSet's keys
Init == InitFor(Sizes, {0})

----------------------------------------------------------------------------
(* Public calls on mazegen.maze, between calls of generate().  A call has   *)
(* the outcomes that the builds give it: `panics` ranges over them.         *)

EnableWall(c, d) ==
    /\ pc = "idle" /\ ~panicked
    /\ \E panics \in {WallOpPanics(maze, c, d, checks) :
                            checks \in OverflowChecks} :
          IF panics
          THEN panicked' = TRUE /\ UNCHANGED maze
          ELSE maze' = MazeEnableWall(maze, c, d) /\ UNCHANGED panicked
    /\ lastCall' = "enable_wall"
    /\ UNCHANGED <<left_to_visit, path_stack, coord, pc, draws, visits, pops,
                   cell_writes>>

DisableWall(c, d) ==
    /\ pc = "idle" /\ ~panicked
    /\ \E panics \in {WallOpPanics(maze, c, d, checks) :
                            checks \in OverflowChecks} :
          IF panics
          THEN panicked' = TRUE /\ UNCHANGED maze
          ELSE maze' = MazeDisableWall(maze, c, d) /\ UNCHANGED panicked
    /\ lastCall' = "disable_wall"
    /\ UNCHANGED <<left_to_visit, path_stack, coord, pc, draws, visits, pops,
                   cell_writes>>

EnableAllWalls ==
    /\ pc = "idle" /\ ~panicked
    /\ \E panics \in {AllWallsPanic(maze, checks) :
                            checks \in OverflowChecks} :
          IF panics
          THEN panicked' = TRUE /\ UNCHANGED maze
          ELSE maze' = MazeEnableAllWalls(maze) /\ UNCHANGED panicked
    /\ lastCall' = "enable_all_walls"
    /\ UNCHANGED <<left_to_visit, path_stack, coord, pc, draws, visits, pops,
                   cell_writes>>

DisableAllWalls ==
    /\ pc = "idle" /\ ~panicked
    /\ \E panics \in {AllWallsPanic(maze, checks) :
                            checks \in OverflowChecks} :
          IF panics
          THEN panicked' = TRUE /\ UNCHANGED maze
          ELSE maze' = MazeDisableAllWalls(maze) /\ UNCHANGED panicked
    /\ lastCall' = "disable_all_walls"
    /\ UNCHANGED <<left_to_visit, path_stack, coord, pc, draws, visits, pops,
                   cell_writes>>

\* maze.get_mut_cell(c).unwrap().enable_wall(&d), on the pub field
\* MazeGen.maze: the flag of that one cell is written, with no edge test and
\* no write on the neighbour's side
GetMutCellEnableWall(c, d) ==
    /\ pc = "idle" /\ ~panicked
    /\ cell_writes < MaxCellWrites
    /\ GetMutCell(maze, c) # <<>>
    /\ maze' = [maze EXCEPT
                    !.cells[GetMutCell(maze, c)[1]] = CellEnableWall(@, d)]
    /\ lastCall' = "cell_enable_wall"
    /\ cell_writes' = cell_writes + 1
    /\ UNCHANGED <<left_to_visit, path_stack, coord, pc, panicked, draws,
                   visits, pops>>

\* maze.get_mut_cell(c).unwrap().disable_wall(&d)
GetMutCellDisableWall(c, d) ==
    /\ pc = "idle" /\ ~panicked
    /\ cell_writes < MaxCellWrites
    /\ GetMutCell(maze, c) # <<>>
    /\ maze' = [maze EXCEPT
                    !.cells[GetMutCell(maze, c)[1]] = CellDisableWall(@, d)]
    /\ lastCall' = "cell_disable_wall"
    /\ cell_writes' = cell_writes + 1
    /\ UNCHANGED <<left_to_visit, path_stack, coord, pc, panicked, draws,
                   visits, pops>>

----------------------------------------------------------------------------
(* MazeGen::generate, one action per step *)

\* lines 287-290: reset the maze, clear the stack, seed the generator
GenerateReset ==
    /\ pc = "idle" /\ ~panicked
    /\ \E panics \in {AllWallsPanic(maze, checks) :
                            checks \in OverflowChecks} :
          IF panics
          THEN panicked' = TRUE /\ UNCHANGED maze
          ELSE maze' = MazeEnableAllWalls(maze) /\ UNCHANGED panicked
    /\ path_stack' = <<>>
    /\ draws' = <<>>
    /\ visits' = 0
    /\ pops' = 0
    /\ pc' = "start"
    /\ UNCHANGED <<left_to_visit, coord, lastCall, cell_writes>>

\* lines 292-293: coord = (0, 0), marked visited
GenerateStart ==
    /\ pc = "start" /\ ~panicked
    /\ coord' = <<0, 0>>
    /\ left_to_visit' = HashSetRemove(left_to_visit, <<0, 0>>)
    /\ visits' = visits + 1
    /\ pc' = "loop"
    /\ UNCHANGED <<maze, path_stack, panicked, lastCall, draws, pops,
                   cell_writes>>

\* lines 298, 300-307: choose() returned Some((next_coord, dir))
Advance ==
    /\ pc = "loop" /\ ~panicked
    /\ LoopGuard(path_stack, left_to_visit)
    /\ LET cands == GetValidNeighborCoordsAndDirs(maze, left_to_visit, coord)
       IN  \E k \in DrawsFor(cands) :
             LET choice == Choose(cands, k)
             IN  /\ choice # <<>>
                 /\ \E panics \in {WallOpPanics(maze, coord, choice[1][2],
                                                  checks) :
                                        checks \in OverflowChecks} :
                      IF panics
                      THEN /\ panicked' = TRUE
                           /\ UNCHANGED <<maze, path_stack, coord,
                                          left_to_visit, visits>>
                      ELSE LET g == StepAdvance(
                                      GenState(maze, left_to_visit,
                                               path_stack, coord),
                                      choice[1])
                           IN  /\ maze' = g.maze
                               /\ path_stack' = g.path_stack
                               /\ coord' = g.coord
                               /\ left_to_visit' = g.left_to_visit
                               /\ visits' = visits + 1
                               /\ UNCHANGED panicked
                 /\ draws' = Append(draws, k)
    /\ UNCHANGED <<pc, lastCall, pops, cell_writes>>

\* lines 298-299: choose() returned None
Backtrack ==
    /\ pc = "loop" /\ ~panicked
    /\ LoopGuard(path_stack, left_to_visit)
    /\ LET cands == GetValidNeighborCoordsAndDirs(maze, left_to_visit, coord)
       IN  \E k \in DrawsFor(cands) :
             /\ Choose(cands, k) = <<>>
             /\ IF path_stack = <<>>
                THEN panicked' = TRUE /\ UNCHANGED <<coord, path_stack, pops>>
                ELSE LET g == StepBacktrack(
                                GenState(maze, left_to_visit,
                                         path_stack, coord))
                     IN  /\ coord' = g.coord
                         /\ path_stack' = g.path_stack
                         /\ pops' = pops + 1
                         /\ UNCHANGED panicked
             /\ draws' = Append(draws, k)
    /\ UNCHANGED <<maze, left_to_visit, pc, lastCall, visits, cell_writes>>

\* line 295: the loop condition is false
LoopExit ==
    /\ pc = "loop" /\ ~panicked
    /\ ~LoopGuard(path_stack, left_to_visit)
    /\ pc' = "done"
    /\ UNCHANGED <<maze, left_to_visit, path_stack, coord, panicked, lastCall,
                   draws, visits, pops, cell_writes>>

\* line 310: generate() returns, its locals are dropped
GenerateReturn ==
    /\ pc = "done" /\ ~panicked
    /\ pc' = "idle"
    /\ lastCall' = "generate"
    /\ coord' = <<0, 0>>
    /\ draws' = <<>>
    /\ visits' = 0
    /\ pops' = 0
    /\ UNCHANGED <<maze, left_to_visit, path_stack, panicked, cell_writes>>

----------------------------------------------------------------------------
(* Specifications *)

InBounds == {c \in Coords(maze.size) : IsValidCoord(maze, c)}

Next ==
    \/ \E c \in InBounds, d \in TileDirection : EnableWall(c, d)
    \/ \E c \in InBounds, d \in TileDirection : DisableWall(c, d)
    \/ EnableAllWalls
    \/ DisableAllWalls
    \/ \E c \in InBounds, d \in TileDirection : GetMutCellEnableWall(c, d)
    \/ \E c \in InBounds, d \in TileDirection : GetMutCellDisableWall(c, d)
    \/ GenerateReset
    \/ GenerateStart
    \/ Advance
    \/ Backtrack
    \/ LoopExit
    \/ GenerateReturn

Spec == Init /\ [][Next]_vars

\* gen_maze(size): MazeGen::new(size), then one generate(), then the maze is
\* returned
InitGenMaze == InitFor(GenSizes, Hashers)

GenMazeCall == lastCall = "new" /\ GenerateReset

NextGenMaze ==
    \/ GenMazeCall
    \/ GenerateStart
    \/ Advance
    \/ Backtrack
    \/ LoopExit
    \/ GenerateReturn

SpecGenMaze == InitGenMaze /\ [][NextGenMaze]_vars

\* the call runs on one thread with no suspension point: a step that can be
\* taken is taken
FairGenMaze == SpecGenMaze /\ WF_vars(NextGenMaze)

----------------------------------------------------------------------------
(* Vocabulary of the properties *)

Width == maze.size.width

Height == maze.size.height

Positive == Width >= 1 /\ Height >= 1

Cells == (0..(Width - 1)) \X (0..(Height - 1))

\* the coordinate one step from c in direction d
Toward(c, d) ==
    CASE d = EAST -> <<c[1] + 1, c[2]>>
      [] d = SOUTH -> <<c[1], c[2] + 1>>
      [] d = WEST -> <<c[1] - 1, c[2]>>
      [] d = NORTH -> <<c[1], c[2] - 1>>

\* side d of cell c lies on the outer edge of the grid
OnBoundary(c, d) ==
    \/ d = WEST /\ c[1] = 0
    \/ d = EAST /\ c[1] = Width - 1
    \/ d = NORTH /\ c[2] = 0
    \/ d = SOUTH /\ c[2] = Height - 1

FullyWalled == \A c \in Cells, d \in TileDirection : IsWallEnabled(maze, c, d)

\* the wall between c and its neighbour in direction d is reported open
\* from both sides
Passage(c, d) ==
    /\ Toward(c, d) \in Cells
    /\ ~IsWallEnabled(maze, c, d)
    /\ ~IsWallEnabled(maze, Toward(c, d), GetOpposite(d))

Edges ==
    {{p[1], Toward(p[1], p[2])} :
        p \in {q \in Cells \X TileDirection : Passage(q[1], q[2])}}

RECURSIVE ReachFrom(_)
ReachFrom(S) ==
    LET T == S \cup {b \in Cells : \E a \in S : {a, b} \in Edges}
    IN  IF T = S THEN S ELSE ReachFrom(T)

Components == {ReachFrom({c}) : c \in Cells}

Connected == Cardinality(Components) <= 1

Acyclic == Cardinality(Edges) = Cardinality(Cells) - Cardinality(Components)

SpanningTree ==
    Connected /\ Acyclic /\ Cardinality(Edges) = Width * Height - 1

----------------------------------------------------------------------------
(* C1 *)

\* C1: in every reachable state, for every in-bounds cell A whose neighbour B
\* in direction d is in bounds, is_wall_enabled(A, d) equals
\* is_wall_enabled(B, opposite(d)).
C1_Symmetry ==
    \A c \in Cells, d \in TileDirection :
        Toward(c, d) \in Cells =>
            (IsWallEnabled(maze, c, d)
                <=> IsWallEnabled(maze, Toward(c, d), GetOpposite(d)))

----------------------------------------------------------------------------
(* C2 *)

\* C2: the grid gen_maze(size) returns, width and height at least 1, is a
\* perfect maze: its open passages make a connected, acyclic graph over the
\* cells with exactly width*height - 1 edges.
C2_PerfectMaze ==
    (pc = "idle" /\ lastCall = "generate" /\ Positive) =>
        /\ Connected
        /\ Acyclic
        /\ Cardinality(Edges) = Width * Height - 1

C2_Witness ==
    /\ pc = "idle" /\ lastCall = "generate"
    /\ Width = 3 /\ Height = 3
    /\ Cardinality(Edges) = 8
    /\ Connected

----------------------------------------------------------------------------
(* C3 *)

\* C3: every call of generate(), a later one on the same MazeGen included,
\* starts from a fully walled grid, an empty path stack and all coordinates
\* unvisited, and ends with the open passages forming a spanning tree.
C3_Rerun ==
    /\ pc = "start" =>
          /\ FullyWalled
          /\ path_stack = <<>>
          /\ left_to_visit.elems = Cells
    /\ (pc = "done" /\ Positive) => SpanningTree

----------------------------------------------------------------------------
(* C4 *)

\* C4: in every reachable state, is_wall_enabled is true for every in-bounds
\* coordinate on the grid edge and its outward-facing direction.
C4_BoundaryPermanence ==
    \A c \in Cells, d \in TileDirection :
        OnBoundary(c, d) => IsWallEnabled(maze, c, d)

\* a disable call has returned and some boundary side has no flag of its own
C4_Witness ==
    /\ pc = "idle"
    /\ lastCall \in {"disable_wall", "disable_all_walls"}
    /\ \E c \in Cells, d \in TileDirection :
          /\ OnBoundary(c, d)
          /\ ~CellIsWallEnabled(maze.cells[c], d)
          /\ IsWallEnabled(maze, c, d)

----------------------------------------------------------------------------
(* C5 *)

\* C5: generate() on a fresh MazeGen of size W x H, W and H at least 1,
\* terminates whatever the random choices; while it runs every visit removes
\* a coordinate not visited before and there are at most W*H pops; when it
\* ends the unvisited set and the path stack are empty and W*H coordinates
\* are visited.
C5_Termination ==
    /\ Positive => <>(pc = "done")
    /\ []((Positive /\ pc \in {"loop", "done"}) =>
            /\ visits + Cardinality(left_to_visit.elems) = Width * Height
            /\ pops <= Width * Height)
    /\ []((Positive /\ pc = "done") =>
            /\ HashSetIsEmpty(left_to_visit)
            /\ path_stack = <<>>
            /\ visits = Width * Height)

C5_Witness ==
    /\ pc = "done"
    /\ Width * Height > 4
    /\ visits = Width * Height
    /\ pops > 0
    /\ left_to_visit.elems = {}

----------------------------------------------------------------------------
(* C6 *)

\* position of a direction in the order EAST, SOUTH, WEST, NORTH
CandidateRank(d) ==
    CASE d = EAST -> 1 [] d = SOUTH -> 2 [] d = WEST -> 3 [] d = NORTH -> 4

InFixedOrder(cands) ==
    \A a, b \in 1..Len(cands) :
        a < b => CandidateRank(cands[a][2]) < CandidateRank(cands[b][2])

\* C6: a run of gen_maze is determined by the size and the drawn indices: an
\* independent run with the same draws, whatever the iteration order of its
\* hash set, has the same walls and hands choose() the same candidate list,
\* and that list is in the order EAST, SOUTH, WEST, NORTH.
C6_Determinism ==
    pc \in {"loop", "done"} =>
        LET cands ==
                GetValidNeighborCoordsAndDirs(maze, left_to_visit, coord)
        IN  /\ InFixedOrder(cands)
            /\ \A h \in Hashers :
                  LET g == RunLoop(GenMazeLoopEntry(maze.size, h), draws)
                  IN  /\ g.maze = maze
                      /\ GetValidNeighborCoordsAndDirs(
                            g.maze, g.left_to_visit, g.coord) = cands

C6_Witness ==
    /\ pc = "done"
    /\ left_to_visit.hasher # 0
    /\ Width = 3 /\ Height = 3
    /\ \E a \in 1..Len(draws) : draws[a] = 2

----------------------------------------------------------------------------
(* C7 *)

\* '#' characters of a line at the given positions
Markers(line, positions) ==
    Cardinality({p \in positions : p <= Len(line) /\ line[p] = "#"})

\* the dump's line of vertical walls of row j, and of the horizontal walls
\* between rows j and j + 1
WallLine(j) == Display(maze)[2 + 2 * j]

SouthLine(j) == Display(maze)[3 + 2 * j]

RECURSIVE SumOver(_, _)
SumOver(f, S) ==
    IF S = {} THEN 0
    ELSE LET x == CHOOSE y \in S : TRUE IN f[x] + SumOver(f, S \ {x})

VerticalMarkers ==
    SumOver([j \in 0..(Height - 1) |->
                Markers(WallLine(j), {3 + 2 * i : i \in 0..(Width - 2)})],
            0..(Height - 1))

HorizontalMarkers ==
    SumOver([j \in 0..(Height - 2) |->
                Markers(SouthLine(j), {2 + 2 * i : i \in 0..(Width - 1)})],
            0..(Height - 2))

\* C7: the dump shows as many markers at interior vertical-wall positions as
\* there are coordinates with a non-boundary EAST side reported walled, and
\* as many at interior horizontal-wall positions (every column) as there are
\* coordinates with a non-boundary SOUTH side reported walled.
C7_RenderCounts ==
    Positive =>
        /\ VerticalMarkers =
              Cardinality({c \in Cells : /\ ~OnBoundary(c, EAST)
                                         /\ IsWallEnabled(maze, c, EAST)})
        /\ HorizontalMarkers =
              Cardinality({c \in Cells : /\ ~OnBoundary(c, SOUTH)
                                         /\ IsWallEnabled(maze, c, SOUTH)})

----------------------------------------------------------------------------
(* C8 *)

\* C8: in every grid state, for every in-bounds coordinate and direction, a
\* second enable_wall (disable_wall) with the same arguments changes nothing
\* after the first, on the Maze and on each Cell.
C8_Idempotence ==
    /\ \A c \in Cells, d \in TileDirection :
          /\ MazeEnableWall(MazeEnableWall(maze, c, d), c, d)
                = MazeEnableWall(maze, c, d)
          /\ MazeDisableWall(MazeDisableWall(maze, c, d), c, d)
                = MazeDisableWall(maze, c, d)
    /\ \A c \in Cells, d \in TileDirection :
          /\ CellEnableWall(CellEnableWall(maze.cells[c], d), d)
                = CellEnableWall(maze.cells[c], d)
          /\ CellDisableWall(CellDisableWall(maze.cells[c], d), d)
                = CellDisableWall(maze.cells[c], d)
          /\ ~CellIsWallEnabled(maze.cells[c], d) =>
                CellDisableWall(maze.cells[c], d) = maze.cells[c]

\* enable_wall has returned, and a first enable and a first disable would
\* each still change the grid
C8_Witness ==
    /\ pc = "idle"
    /\ lastCall = "enable_wall"
    /\ \E c \in Cells, d \in TileDirection :
          MazeEnableWall(maze, c, d) # maze
    /\ \E c \in Cells, d \in TileDirection :
          MazeDisableWall(maze, c, d) # maze

----------------------------------------------------------------------------
(* C9 *)

\* C9: construction with a zero width or a zero height ends in a failure,
\* never in a grid.
C9_ZeroSizeRejected == (Width = 0 \/ Height = 0) => panicked

----------------------------------------------------------------------------
(* C10 *)

\* C10: right after Maze::new(size), width and height at least 1, the wall
\* set of each cell holds exactly the directions whose side is on the grid
\* boundary, so is_wall_enabled is true exactly for boundary sides.
C10_NewWalls ==
    (pc = "idle" /\ lastCall = "new" /\ Positive) =>
        \A c \in Cells, d \in TileDirection :
            /\ CellIsWallEnabled(maze.cells[c], d) <=> OnBoundary(c, d)
            /\ IsWallEnabled(maze, c, d) <=> OnBoundary(c, d)

----------------------------------------------------------------------------
(* C11 *)

\* C11: in generate(), whenever the loop condition holds and the current cell
\* has no unvisited in-bounds neighbour, the path stack is non-empty, so the
\* backtrack arm never pops an empty stack.
C11_NoEmptyPop ==
    /\ ~panicked
    /\ (/\ pc = "loop"
        /\ Positive
        /\ LoopGuard(path_stack, left_to_visit)
        /\ GetValidNeighborCoordsAndDirs(maze, left_to_visit, coord) = <<>>)
            => path_stack # <<>>

\* a dead end with cells still to visit
C11_Witness ==
    /\ pc = "loop"
    /\ LoopGuard(path_stack, left_to_visit)
    /\ GetValidNeighborCoordsAndDirs(maze, left_to_visit, coord) = <<>>
    /\ left_to_visit.elems # {}
    /\ Len(path_stack) >= 3

----------------------------------------------------------------------------
(* C12 *)

\* the neighbour resolution of c has an entry for direction d
HasNeighbor(c, d) ==
    \E a \in 1..Len(GetNeighborCoordsAndDirs(maze, c)) :
        GetNeighborCoordsAndDirs(maze, c)[a][2] = d

\* C12: for every in-bounds coordinate and direction of a grid with width and
\* height at least 1, is_edge_wall is false exactly when the neighbour
\* resolution yields an in-bounds neighbour in that direction; no wall call
\* aborts on an unwrap, and on a boundary side enable_wall and disable_wall
\* leave the grid as it is.
C12_NoUnwrapFailure ==
    /\ ~panicked
    /\ Positive =>
          \A c \in Cells, d \in TileDirection :
              /\ ~IsEdgeWall(maze, c, d) <=> HasNeighbor(c, d)
              /\ HasNeighbor(c, d) => Toward(c, d) \in Cells
              /\ GetCell(maze, c) # <<>>
              /\ \A checks \in OverflowChecks :
                    /\ ~IsWallEnabledPanics(maze, c, d, checks)
                    /\ ~WallOpPanics(maze, c, d, checks)
              /\ IsEdgeWall(maze, c, d) =>
                    /\ MazeEnableWall(maze, c, d) = maze
                    /\ MazeDisableWall(maze, c, d) = maze

\* a wall call has returned on a grid that is not square and has a cell with
\* a boundary side and a side shared with a neighbour
C12_Witness ==
    /\ pc = "idle"
    /\ lastCall \in {"enable_wall", "disable_wall"}
    /\ Positive /\ Width # Height
    /\ \E c \in Cells, d \in TileDirection, e \in TileDirection :
          /\ ~IsEdgeWall(maze, c, d) /\ HasNeighbor(c, d)
          /\ IsEdgeWall(maze, c, e) /\ ~HasNeighbor(c, e)
    /\ ~panicked

----------------------------------------------------------------------------
(* C13 *)

\* C13: when enable_all_walls() has returned, is_wall_enabled is true for
\* every in-bounds coordinate and direction; when disable_all_walls() has
\* returned, it is true exactly for the boundary sides.
C13_AllWalls ==
    /\ (pc = "idle" /\ lastCall = "enable_all_walls") => FullyWalled
    /\ (pc = "idle" /\ lastCall = "disable_all_walls") =>
          \A c \in Cells, d \in TileDirection :
              IsWallEnabled(maze, c, d) <=> OnBoundary(c, d)

\* disable_all_walls() has returned on a grid that generate() had walled
C13_Witness ==
    /\ pc = "idle"
    /\ lastCall = "disable_all_walls"
    /\ left_to_visit.elems = {}
    /\ Width >= 2 /\ Height >= 2
    /\ ~FullyWalled

----------------------------------------------------------------------------
(* C14 *)

\* the direction that faces d
Facing(d) ==
    CASE d = NORTH -> SOUTH [] d = SOUTH -> NORTH
      [] d = EAST -> WEST [] d = WEST -> EAST

\* the two flags of the wall on side d of cell c
WallFlags(c, d) == {<<c, d>>, <<Toward(c, d), Facing(d)>>}

\* the (coordinate, direction) pairs whose flag, or whose is_wall_enabled
\* answer, differs before and after a step
ChangedBy ==
    {p \in Cells \X TileDirection :
        \/ CellIsWallEnabled(maze'.cells[p[1]], p[2])
              # CellIsWallEnabled(maze.cells[p[1]], p[2])
        \/ IsWallEnabled(maze', p[1], p[2]) # IsWallEnabled(maze, p[1], p[2])}

\* C14: no step changes the grid size; enable_wall(c, d) and
\* disable_wall(c, d) leave the whole grid unchanged on a boundary side, and
\* on any other side change at most flag d of cell c and the facing flag of
\* the neighbour: every other flag and every other is_wall_enabled answer is
\* the same before and after.
C14_Frame ==
    [][ /\ maze'.size = maze.size
        /\ (/\ pc = "idle"
            /\ lastCall' \in {"enable_wall", "disable_wall"}
            /\ maze' # maze) =>
             \A changed \in {ChangedBy} :
                \A c \in Cells, d \in TileDirection :
                   \/ IF OnBoundary(c, d) THEN maze' = maze
                      ELSE changed \subseteq WallFlags(c, d)
                   \/ ~(\/ lastCall' = "enable_wall" /\ EnableWall(c, d)
                        \/ lastCall' = "disable_wall" /\ DisableWall(c, d))
      ]_vars

\* enable_wall has returned with one inner wall up on both sides and another
\* inner wall still open
C14_Witness ==
    /\ pc = "idle"
    /\ lastCall = "enable_wall"
    /\ left_to_visit.elems = Cells
    /\ \E c \in Cells, d \in TileDirection :
          /\ ~OnBoundary(c, d)
          /\ IsWallEnabled(maze, c, d)
          /\ IsWallEnabled(maze, Toward(c, d), Facing(d))
          /\ \E c2 \in Cells, d2 \in TileDirection :
                /\ ~OnBoundary(c2, d2)
                /\ <<c2, d2>> \notin WallFlags(c, d)
                /\ ~IsWallEnabled(maze, c2, d2)

----------------------------------------------------------------------------
(* C15 *)

\* the directions in which the current cell has an unvisited in-bounds
\* neighbour
UnvisitedDirs ==
    {d \in TileDirection :
        Toward(coord, d) \in Cells /\ Toward(coord, d) \in left_to_visit.elems}

\* the step moves to the neighbour in direction d: its wall is open from both
\* sides afterwards, no other answer of is_wall_enabled changes, the cell
\* left is pushed and the cell entered leaves the unvisited set
AdvancedTo(d) ==
    /\ coord' = Toward(coord, d)
    /\ path_stack' = Append(path_stack, coord)
    /\ left_to_visit'.elems = left_to_visit.elems \ {Toward(coord, d)}
    /\ ~IsWallEnabled(maze', coord, d)
    /\ ~IsWallEnabled(maze', Toward(coord, d), Facing(d))
    /\ \A c2 \in Cells, d2 \in TileDirection :
          <<c2, d2>> \notin WallFlags(coord, d) =>
              (IsWallEnabled(maze', c2, d2) <=> IsWallEnabled(maze, c2, d2))

\* the step pops the stack into the current cell and changes nothing else
Backtracked ==
    /\ path_stack # <<>>
    /\ coord' = path_stack[Len(path_stack)]
    /\ path_stack' = SubSeq(path_stack, 1, Len(path_stack) - 1)
    /\ maze' = maze
    /\ left_to_visit' = left_to_visit

\* C15: every iteration of generate()'s loop is an advance when the current
\* cell has an unvisited in-bounds neighbour, to one such neighbour, and a
\* backtrack otherwise; an advance never enters a visited cell.
C15_LoopStep ==
    [][ (pc = "loop" /\ pc' = "loop") =>
            /\ ~panicked'
            /\ IF UnvisitedDirs # {}
               THEN \E d \in UnvisitedDirs : AdvancedTo(d)
               ELSE Backtracked
      ]_vars

\* the loop has backtracked and then advanced again
C15_Witness ==
    /\ pc = "loop"
    /\ pops > 0
    /\ draws # <<>>
    /\ draws[Len(draws)] # 0
    /\ Width * Height >= 6

----------------------------------------------------------------------------
(* C16 *)

\* C16: for every in-bounds coordinate, get_neighbor_coords_and_dirs returns
\* exactly the in-bounds coordinates one step EAST, SOUTH, WEST and NORTH,
\* each with the direction that leads to it, at most one entry per direction
\* and no coordinate below zero.
C16_NeighborResolution ==
    Positive =>
        \A c \in Cells :
            LET nb == GetNeighborCoordsAndDirs(maze, c)
            IN  /\ {nb[a] : a \in 1..Len(nb)} =
                      {<<Toward(c, d), d>> :
                          d \in {e \in TileDirection : Toward(c, e) \in Cells}}
                /\ \A a, b \in 1..Len(nb) : a # b => nb[a][2] # nb[b][2]
                /\ \A a \in 1..Len(nb) : nb[a][1][1] >= 0 /\ nb[a][1][2] >= 0

\* generate() stands on a cell with four neighbours, in a grid that also has
\* corner cells with two
C16_Witness ==
    /\ pc = "loop"
    /\ Len(GetNeighborCoordsAndDirs(maze, coord)) = 4
    /\ Len(GetNeighborCoordsAndDirs(maze, <<0, 0>>)) = 2

----------------------------------------------------------------------------
(* C17 *)

Visited == Cells \ left_to_visit.elems

\* the maze step of a generate() call: only openings, and an advance opens
\* a wall that was up on both of its sides
CarveStep ==
    pc \in {"start", "loop", "done"} =>
        /\ \A c \in Cells, d \in TileDirection :
              ~IsWallEnabled(maze, c, d) => ~IsWallEnabled(maze', c, d)
        /\ Len(path_stack') > Len(path_stack) =>
              \E d \in TileDirection :
                  /\ coord' = Toward(coord, d)
                  /\ IsWallEnabled(maze, coord, d)
                  /\ IsWallEnabled(maze, coord', Facing(d))
                  /\ ~IsWallEnabled(maze', coord, d)
                  /\ ~IsWallEnabled(maze', coord', Facing(d))

\* C17: during generate() on a fresh MazeGen the open passages join visited
\* cells only, the visited cells with the passages form a connected acyclic
\* graph with one passage fewer than cells; no step of the call re-enables a
\* wall, and each advance opens a wall that was up on both sides.
C17_TreeInvariant ==
    /\ []((pc \in {"loop", "done"} /\ Positive) =>
            /\ \A e \in Edges : e \subseteq Visited
            /\ ReachFrom({coord}) = Visited
            /\ Acyclic
            /\ Cardinality(Edges) = Cardinality(Visited) - 1)
    /\ [][CarveStep]_vars

\* part of the grid is carved, part is still to visit, after a backtrack
C17_Witness ==
    /\ pc = "loop"
    /\ Cardinality(Visited) >= 4
    /\ Cardinality(Edges) = Cardinality(Visited) - 1
    /\ left_to_visit.elems # {}
    /\ pops > 0

----------------------------------------------------------------------------
(* C18 *)

\* x and y are adjacent and the wall between them is open
Linked(x, y) == \E d \in TileDirection : Toward(x, d) = y /\ Passage(x, d)

\* C18: during generate() on a fresh MazeGen the path stack holds pairwise
\* distinct visited coordinates with (0,0) at the bottom, each entry linked
\* to the next by an open wall and the top linked to the current cell, which
\* is visited and not on the stack.
C18_PathStack ==
    (pc \in {"loop", "done"} /\ Positive) =>
        /\ \A a, b \in 1..Len(path_stack) :
              a # b => path_stack[a] # path_stack[b]
        /\ \A a \in 1..Len(path_stack) :
              path_stack[a] \in Visited /\ path_stack[a] # coord
        /\ path_stack # <<>> => path_stack[1] = <<0, 0>>
        /\ \A a \in 1..(Len(path_stack) - 1) :
              Linked(path_stack[a], path_stack[a + 1])
        /\ path_stack # <<>> => Linked(path_stack[Len(path_stack)], coord)
        /\ coord \in Visited

\* a stack of three or more after a backtrack, with cells still to visit
C18_Witness ==
    /\ pc = "loop"
    /\ Len(path_stack) >= 3
    /\ pops > 0
    /\ left_to_visit.elems # {}

====
